---- MODULE Spec2Model ----
(***************************************************************************)
(* Model of src/seeker.py: the NASDAQ screening script.  Prices are        *)
(* integers in thousandths of a currency unit; moving averages are exact   *)
(* rationals <<numerator, denominator>>, the CCI an exact mixed number;    *)
(* the float fields of a result record are integers in hundredths, as      *)
(* round(x, 2) leaves them.                                                *)
(***************************************************************************)
EXTENDS Integers, Sequences, FiniteSets, TLC

(***************************************************************************)
(* Program constants                                                       *)
(***************************************************************************)
MinHistory == 200
VolumeTail == 50
CciLow == -100
CciHigh == 100

(***************************************************************************)
(* Bounds of the model                                                     *)
(***************************************************************************)
MaxTickers == 2
MaxExtra == 1
TailLen == 2
MaxLen == 4
MaxWindow == 3

(***************************************************************************)
(* Exact arithmetic                                                        *)
(***************************************************************************)
Abs(x) == IF x < 0 THEN -x ELSE x

RECURSIVE Gcd(_, _)
Gcd(a, b) == IF b = 0 THEN a ELSE Gcd(b, a % b)

Rat(n, d) ==
    LET g == Gcd(Abs(n), Abs(d))
        s == IF d < 0 THEN -1 ELSE 1
    IN  IF n = 0 THEN <<0, 1>> ELSE <<s * (n \div g), s * (d \div g)>>

RatSub(a, b) == Rat(a[1] * b[2] - b[1] * a[2], a[2] * b[2])
RatLt(a, b) == a[1] * b[2] < b[1] * a[2]
RatLe(a, b) == a[1] * b[2] <= b[1] * a[2]
RatInt(n) == <<n, 1>>

\* round-half-to-even of n/d (d > 0) to an integer
RoundHalfEven(n, d) ==
    LET q == n \div d
        r == n - q * d
    IN  IF 2 * r < d THEN q
        ELSE IF 2 * r > d THEN q + 1
        ELSE IF q % 2 = 0 THEN q ELSE q + 1

\* round(x, 2) of a price in thousandths, result in hundredths
Round2Price(x) == RoundHalfEven(x[1], 10 * x[2])
(***************************************************************************)
(* Mixed numbers <<q, r, d>> = q + r/d with 0 <= r < d, for the CCI: its   *)
(* numerator and denominator do not fit a machine integer together         *)
(***************************************************************************)
Mixed(x) == <<x[1] \div x[2], x[1] % x[2], x[2]>>
MixInt(n) == <<n, 0, 1>>
\* k times a mixed number, for a small k >= 0
MixScale(a, k) == <<a[1] * k + ((a[2] * k) \div a[3]), (a[2] * k) % a[3], a[3]>>

RECURSIVE FracLt(_, _, _, _)
\* r/d < s/e for proper fractions, by their continued fractions
FracLt(r, d, s, e) ==
    IF s = 0 THEN FALSE
    ELSE IF r = 0 THEN TRUE
    ELSE IF d \div r # e \div s THEN d \div r > e \div s
    ELSE FracLt(e % s, s, d % r, r)

MixLt(a, b) ==
    IF a[1] # b[1] THEN a[1] < b[1] ELSE FracLt(a[2], a[3], b[2], b[3])
MixLe(a, b) == ~MixLt(b, a)

\* round(x, 2) of a mixed number, result in hundredths
Round2Mixed(x) ==
    LET c == MixScale(MixScale(x, 10), 10)
    IN  IF 2 * c[2] < c[3] THEN c[1]
        ELSE IF 2 * c[2] > c[3] THEN c[1] + 1
        ELSE IF c[1] % 2 = 0 THEN c[1] ELSE c[1] + 1

RECURSIVE SumSeq(_, _, _)
\* sum of f[k] for k in lo..hi
SumSeq(f, lo, hi) ==
    IF lo > hi THEN 0
    ELSE IF lo = hi THEN f[lo]
    ELSE LET mid == (lo + hi) \div 2
         IN  SumSeq(f, lo, mid) + SumSeq(f, mid + 1, hi)

\* pandas Series.tail(k), k >= 0
tail(s, k) == IF k >= Len(s) THEN s ELSE SubSeq(s, Len(s) - k + 1, Len(s))

(***************************************************************************)
(* Data frames                                                             *)
(***************************************************************************)
RawColumns == {"Close", "High", "Low", "Volume"}
EmptyFrame == [columns |-> {}, rows |-> <<>>]
IsEmpty(data) == data.columns = {} \/ data.rows = <<>>

(***************************************************************************)
(* Calls: a call returns a value or raises; `except Exception: return d`   *)
(* turns a raise into the return of d                                      *)
(***************************************************************************)
\* fault: an exception was raised on the way, caught and logged or not
Returned(v) == [raised |-> FALSE, value |-> v, fault |-> FALSE]
Raised == [raised |-> TRUE, value |-> FALSE, fault |-> TRUE]
Except(r, d) ==
    IF r.raised THEN [raised |-> FALSE, value |-> d, fault |-> TRUE] ELSE r

(***************************************************************************)
(* fetch_stock_data: the provider answers with an error or with a frame    *)
(***************************************************************************)
ProviderError == [error |-> TRUE]
IsError(resp) == "error" \in DOMAIN resp

HasHistoryShort(data) == ~(IsEmpty(data) \/ Len(data.rows) < MinHistory - 1)
HasHistory(data) == ~(IsEmpty(data) \/ Len(data.rows) < MinHistory)

fetch_stock_data_try(resp) ==
    IF IsError(resp) THEN Raised
    ELSE IF ~HasHistory(resp) THEN Returned(EmptyFrame)
    ELSE Returned(resp)

fetch_stock_data(resp) == Except(fetch_stock_data_try(resp), EmptyFrame)

(***************************************************************************)
(* apply_indicators                                                        *)
(***************************************************************************)
Closes(data) == [k \in 1..Len(data.rows) |-> data.rows[k].Close]
Volumes(data) == [k \in 1..Len(data.rows) |-> data.rows[k].Volume]
\* three times the typical price (high + low + close) / 3
Typical3(data) ==
    [k \in 1..Len(data.rows) |->
        data.rows[k].High + data.rows[k].Low + data.rows[k].Close]

\* rolling(window = w, min_periods = w).mean() at position k, k >= w
RollingMean(f, w, k) == Rat(SumSeq(f, k - w + 1, k), w)

\* w * 3tp[k] - sum of the window: 3w times (tp - rolling mean)
CciDev(tp3, w, k) == w * tp3[k] - SumSeq(tp3, k - w + 1, k)
\* 3 w^2 times the mean absolute deviation of the window ending at k
CciMad(tp3, w, k) ==
    LET s == SumSeq(tp3, k - w + 1, k)
        d == [j \in (k - w + 1)..k |-> Abs(w * tp3[j] - s)]
    IN  SumSeq(d, k - w + 1, k)
\* (tp - mean) / (0.015 * mad) = 200 w dev / (3 mad), mad # 0
CciValue(tp3, w, k) ==
    MixScale(MixScale(MixScale(
        Mixed(Rat(CciDev(tp3, w, k), 3 * CciMad(tp3, w, k))), 10), 20), w)

IndicatorKeys == {"sma20_window", "sma200_window", "cci_window"}

\* row k keeps all three indicators after dropna
Defined(data, config, k) ==
    /\ k >= config["sma20_window"]
    /\ k >= config["sma200_window"]
    /\ k >= config["cci_window"]
    /\ CciMad(Typical3(data), config["cci_window"], k) # 0

EnrichedRow(data, config, k) ==
    [Close  |-> data.rows[k].Close,
     High   |-> data.rows[k].High,
     Low    |-> data.rows[k].Low,
     Volume |-> data.rows[k].Volume,
     SMA20  |-> RollingMean(Closes(data), config["sma20_window"], k),
     SMA200 |-> RollingMean(Closes(data), config["sma200_window"], k),
     CCI    |-> CciValue(Typical3(data), config["cci_window"], k)]

\* the enriched rows that survive dropna, in their order
DropNa(data, config) ==
    LET kept == {k \in 1..Len(data.rows) : Defined(data, config, k)}
        nth(j) == CHOOSE k \in kept : Cardinality({m \in kept : m <= k}) = j
    IN  [j \in 1..Cardinality(kept) |-> EnrichedRow(data, config, nth(j))]

apply_indicators_try(data, config) ==
    IF ~({"Close", "High", "Low"} \subseteq data.columns) THEN Raised
    ELSE IF ~(IndicatorKeys \subseteq DOMAIN config) THEN Raised
    ELSE Returned([columns |-> data.columns \cup {"SMA20", "SMA200", "CCI"},
                   rows    |-> DropNa(data, config)])

apply_indicators_uncaught(data, config) == apply_indicators_try(data, config)
apply_indicators(data, config) ==
    Except(apply_indicators_try(data, config), EmptyFrame)

(***************************************************************************)
(* check_cci_rise                                                          *)
(***************************************************************************)
RECURSIVE MixMin(_, _)
\* minimum of the first k elements of a non-empty sequence of mixed numbers
MixMin(s, k) ==
    IF k = 1 THEN s[1]
    ELSE LET m == MixMin(s, k - 1) IN IF MixLt(s[k], m) THEN s[k] ELSE m

CciColumn(data) == [k \in 1..Len(data.rows) |-> data.rows[k].CCI]

CciRiseTestLoose(cci_min, cci_current) ==
    MixLe(cci_min, MixInt(CciLow)) /\ MixLe(MixInt(CciHigh), cci_current)
CciRiseTest(cci_min, cci_current) ==
    MixLt(cci_min, MixInt(CciLow)) /\ MixLt(MixInt(CciHigh), cci_current)

check_cci_rise_try(data, config) ==
    IF "CCI" \notin data.columns \/ "cci_window" \notin DOMAIN config THEN Raised
    ELSE LET cci_last_n_days == tail(CciColumn(data), config["cci_window"])
         IN  IF cci_last_n_days = <<>> THEN Raised
             ELSE Returned(
                    CciRiseTest(MixMin(cci_last_n_days, Len(cci_last_n_days)),
                                cci_last_n_days[Len(cci_last_n_days)]))

check_cci_rise(data, config) == Except(check_cci_rise_try(data, config), FALSE)

(***************************************************************************)
(* check_sma_crossover                                                     *)
(***************************************************************************)
SmaDiff(data) ==
    [k \in 1..Len(data.rows) |-> RatSub(data.rows[k].SMA20, data.rows[k].SMA200)]

CrossAtStrict(sma_diff, k) ==
    /\ k >= 2
    /\ RatLt(sma_diff[k - 1], RatInt(0))
    /\ RatLt(RatInt(0), sma_diff[k])
\* (sma_diff.shift(1) <= 0) & (sma_diff > 0) at position k
CrossAt(sma_diff, k) ==
    /\ k >= 2
    /\ RatLe(sma_diff[k - 1], RatInt(0))
    /\ RatLt(RatInt(0), sma_diff[k])

Crossover(data) ==
    [k \in 1..Len(data.rows) |-> CrossAt(SmaDiff(data), k)]

check_sma_crossover_try(data, config) ==
    IF ~({"SMA20", "SMA200"} \subseteq data.columns) THEN Raised
    ELSE IF "days_before" \notin DOMAIN config THEN Raised
    ELSE LET crossover == tail(Crossover(data), config["days_before"])
         IN  Returned(\E k \in 1..Len(crossover) : crossover[k])

check_sma_crossover(data, config) ==
    Except(check_sma_crossover_try(data, config), FALSE)

(***************************************************************************)
(* check_volume_and_price                                                  *)
(***************************************************************************)
\* data['Volume'].tail(50).mean() as <<sum, count>>
AvgVolume(data) ==
    LET v == tail(Volumes(data), VolumeTail)
    IN  <<SumSeq(v, 1, Len(v)), Len(v)>>

LastClose(data) == data.rows[Len(data.rows)].Close

VolumeTestLoose(avg_volume, threshold) == avg_volume[1] >= threshold * avg_volume[2]
VolumeTest(avg_volume, threshold) == avg_volume[1] > threshold * avg_volume[2]
PriceTest(last_price, threshold) == last_price > threshold

check_volume_and_price_try(data, config) ==
    IF ~({"Volume", "Close"} \subseteq data.columns) THEN Raised
    ELSE IF data.rows = <<>> THEN Raised
    ELSE IF "volume_threshold" \notin DOMAIN config THEN Raised
    ELSE IF ~VolumeTest(AvgVolume(data), config["volume_threshold"])
         THEN Returned(FALSE)
    ELSE IF "price_threshold" \notin DOMAIN config THEN Raised
    ELSE Returned(PriceTest(LastClose(data), config["price_threshold"]))

check_volume_and_price(data, config) ==
    Except(check_volume_and_price_try(data, config), FALSE)

(***************************************************************************)
(* analyze_stocks: the record of a passing ticker                          *)
(***************************************************************************)
ResultRecord(ticker, data) ==
    LET last_row == data.rows[Len(data.rows)]
    IN  [Ticker         |-> ticker,
         LastPrice      |-> Round2Price(RatInt(last_row.Close)),
         CCI            |-> Round2Mixed(last_row.CCI),
         SMA20          |-> Round2Price(last_row.SMA20),
         SMA200         |-> Round2Price(last_row.SMA200),
         AverageVolume  |-> AvgVolume(data)[1] \div AvgVolume(data)[2]]

(***************************************************************************)
(* Inputs: configurations, ticker universes, provider responses            *)
(***************************************************************************)
ConfigKeys ==
    {"sma20_window", "sma200_window", "cci_window", "days_before",
     "volume_threshold", "price_threshold"}

DefaultConfig ==
    [sma20_window |-> 20, sma200_window |-> 200, cci_window |-> 20,
     days_before |-> 5, volume_threshold |-> 1000000, price_threshold |-> 5000]

Without(config, keys) == [k \in (DOMAIN config) \ keys |-> config[k]]

\* the complete configuration, and the configurations that lack one key
ConfigInputs ==
    {DefaultConfig} \cup {Without(DefaultConfig, {k}) : k \in ConfigKeys}

\* the universes: n symbols, two names in turn (a name recurs from n = 3 on)
Universe(n) == [k \in 1..n |-> IF k % 2 = 1 THEN "AAA" ELSE "BBB"]
TickerInputs == {Universe(n) : n \in 0..MaxTickers}

Row(c, v) == [Close |-> c, High |-> c + 2, Low |-> c - 1, Volume |-> v]
TailRows == {Row(5000, 1000000), Row(10000, 1000000), Row(20004, 1000000)}
BaseVolumes == {1000000, 2000000}

\* n rows: a flat history at 10.000 followed by the given last rows
MakeFrame(n, v, last) ==
    [columns |-> RawColumns,
     rows    |-> [k \in 1..n |->
                    IF k <= n - Len(last) THEN Row(10000, v)
                    ELSE last[k - (n - Len(last))]]]

RowCounts == MinHistory..(MinHistory + MaxExtra)

Frames ==
    {MakeFrame(n, v, last) :
        n \in RowCounts, v \in BaseVolumes, last \in [1..TailLen -> TailRows]}

\* one row short of the required history, whatever the last rows are
ShortFrames ==
    {MakeFrame(MinHistory - 1, 2000000, last) : last \in [1..TailLen -> TailRows]}

\* a frame of sufficient length that lacks the High column
Malformed ==
    [columns |-> RawColumns \ {"High"},
     rows    |-> MakeFrame(MinHistory, 2000000,
                           [k \in 1..TailLen |-> Row(20004, 1000000)]).rows]

ProviderResponses ==
    Frames \cup ShortFrames
      \cup {ProviderError, [columns |-> RawColumns, rows |-> <<>>], Malformed}

ProvidedRows(resp) == IF IsError(resp) THEN -1 ELSE Len(resp.rows)

(***************************************************************************)
(* State                                                                   *)
(***************************************************************************)
VARIABLES
    pc,        \* position of the script
    config,    \* the loaded configuration
    tickers,   \* the ticker universe
    idx,       \* position of analyze_stocks in tickers
    data,      \* the frame of the ticker under evaluation
    results,   \* the result list of analyze_stocks
    exported,  \* the result files written
    stages,    \* the stages run for the ticker under evaluation, with outcome
    provided,  \* number of rows the provider returned for it (-1: error)
    tested,    \* the values check_volume_and_price computed for it
    origin,    \* for each result: the input position and the tested values
    visited,   \* the input positions analyze_stocks has started on
    faulted,   \* the input positions whose evaluation logged an exception
    fpc, fdata, fconfig, fout   \* the filters applied on their own

vars == <<pc, config, tickers, idx, data, results, exported, stages, provided,
          tested, origin, visited, faulted, fpc, fdata, fconfig, fout>>

mainVars == <<pc, config, tickers, idx, data, results, exported, stages,
              provided, tested, origin, visited, faulted>>
harnessVars == <<fpc, fdata, fconfig, fout>>

NoConfig == [k \in {} |-> 0]
Untested == <<>>

Init ==
    /\ pc = "load_config"
    /\ config = NoConfig
    /\ tickers = <<>>
    /\ idx = 0
    /\ data = EmptyFrame
    /\ results = <<>>
    /\ exported = <<>>
    /\ stages = <<>>
    /\ provided = 0
    /\ tested = Untested
    /\ origin = <<>>
    /\ visited = {}
    /\ faulted = {}
    /\ fpc = "idle"
    /\ fdata = EmptyFrame
    /\ fconfig = NoConfig
    /\ fout = Returned(FALSE)

\* a stage of one ticker's evaluation: did it pass, did it log an exception
Stage(name, ok, fault) == [name |-> name, ok |-> ok, fault |-> fault]

(***************************************************************************)
(* __main__                                                                *)
(***************************************************************************)
\* load_config logs and re-raises whatever reading the file raises
load_config(file) == file

LoadConfig ==
    /\ pc = "load_config"
    /\ \E file \in {Returned(c) : c \in ConfigInputs} \cup {Raised} :
          IF load_config(file).raised
          THEN config' = config /\ pc' = "raised"
          ELSE config' = load_config(file).value /\ pc' = "fetch_tickers"
    /\ UNCHANGED <<tickers, idx, data, results, exported, stages, provided,
                   tested, origin, visited, faulted>>
    /\ UNCHANGED harnessVars

\* fetch_nasdaq_tickers returns [] when the ticker source raises
fetch_nasdaq_tickers(source) == Except(source, <<>>)

FetchNasdaqTickers ==
    /\ pc = "fetch_tickers"
    /\ \E source \in {Returned(t) : t \in TickerInputs} \cup {Raised} :
          IF fetch_nasdaq_tickers(source).raised
          THEN tickers' = tickers /\ pc' = "raised"
          ELSE tickers' = fetch_nasdaq_tickers(source).value /\ pc' = "main"
    /\ UNCHANGED <<config, idx, data, results, exported, stages, provided,
                   tested, origin, visited, faulted>>
    /\ UNCHANGED harnessVars

NoTickersNever(t) == FALSE
NoTickers(t) == t = <<>>

\* if not tickers: log and exit; else call analyze_stocks
MainBranch ==
    /\ pc = "main"
    /\ IF NoTickers(tickers)
       THEN pc' = "done" /\ UNCHANGED <<idx, results>>
       ELSE pc' = "loop" /\ idx' = 1 /\ results' = <<>>
    /\ UNCHANGED <<config, tickers, data, exported, stages, provided, tested,
                   origin, visited, faulted>>
    /\ UNCHANGED harnessVars

(***************************************************************************)
(* analyze_stocks                                                          *)
(***************************************************************************)
LoopDone(k, t) == k > Len(t)

\* continue, or the end of the loop body: this ticker's evaluation is over
Continue == pc' = "next" /\ idx' = idx
\* an exception that no handler catches ends the script
Propagate == pc' = "raised" /\ idx' = idx

\* data = fetch_stock_data(...); if data.empty: continue
FetchStockData ==
    /\ pc = "loop" /\ ~LoopDone(idx, tickers)
    /\ \E resp \in ProviderResponses : \E r \in {fetch_stock_data(resp)} :
          /\ provided' = ProvidedRows(resp)
          /\ faulted' = IF r.fault THEN faulted \cup {idx} ELSE faulted
          /\ data' = IF r.raised THEN data ELSE r.value
          /\ stages' = <<Stage("fetch_stock_data",
                               ~r.raised /\ ~IsEmpty(r.value), r.fault)>>
          /\ IF r.raised THEN Propagate
             ELSE IF IsEmpty(r.value) THEN Continue
             ELSE pc' = "volume" /\ idx' = idx
    /\ visited' = visited \cup {idx}
    /\ tested' = Untested
    /\ UNCHANGED <<config, tickers, results, exported, origin>>
    /\ UNCHANGED harnessVars

\* what check_volume_and_price has computed when it reaches its comparison
VolumePriceValues(d) ==
    IF {"Volume", "Close"} \subseteq d.columns /\ d.rows # <<>>
    THEN <<AvgVolume(d), LastClose(d)>>
    ELSE Untested

\* if not check_volume_and_price(data, config): continue
CheckVolumeAndPrice ==
    /\ pc = "volume"
    /\ \E r \in {check_volume_and_price(data, config)} :
          /\ faulted' = IF r.fault THEN faulted \cup {idx} ELSE faulted
          /\ stages' = Append(stages,
                Stage("check_volume_and_price", ~r.raised /\ r.value, r.fault))
          /\ IF r.raised THEN Propagate
             ELSE IF ~r.value THEN Continue
             ELSE pc' = "indicators" /\ idx' = idx
    /\ tested' = VolumePriceValues(data)
    /\ UNCHANGED <<config, tickers, data, results, exported, provided, origin,
                   visited>>
    /\ UNCHANGED harnessVars

\* data = apply_indicators(data, config); if data.empty: continue
ApplyIndicators ==
    /\ pc = "indicators"
    /\ \E r \in {apply_indicators(data, config)} :
          /\ faulted' = IF r.fault THEN faulted \cup {idx} ELSE faulted
          /\ data' = IF r.raised THEN data ELSE r.value
          /\ stages' = Append(stages,
                Stage("apply_indicators", ~r.raised /\ ~IsEmpty(r.value),
                      r.fault))
          /\ IF r.raised THEN Propagate
             ELSE IF IsEmpty(r.value) THEN Continue
             ELSE pc' = "cci" /\ idx' = idx
    /\ UNCHANGED <<config, tickers, results, exported, provided, tested,
                   origin, visited>>
    /\ UNCHANGED harnessVars

\* if not check_cci_rise(data, config): continue
CheckCciRise ==
    /\ pc = "cci"
    /\ \E r \in {check_cci_rise(data, config)} :
          /\ faulted' = IF r.fault THEN faulted \cup {idx} ELSE faulted
          /\ stages' = Append(stages,
                Stage("check_cci_rise", ~r.raised /\ r.value, r.fault))
          /\ IF r.raised THEN Propagate
             ELSE IF ~r.value THEN Continue
             ELSE pc' = "sma" /\ idx' = idx
    /\ UNCHANGED <<config, tickers, data, results, exported, provided, tested,
                   origin, visited>>
    /\ UNCHANGED harnessVars

AcceptAlways(passed) == TRUE
\* a ticker is recorded when the last filter has passed as well
Accept(passed) == passed

\* if not check_sma_crossover(data, config): continue; results.append(result)
CheckSmaCrossover ==
    /\ pc = "sma"
    /\ \E r \in {check_sma_crossover(data, config)} :
          /\ faulted' = IF r.fault THEN faulted \cup {idx} ELSE faulted
          /\ stages' = Append(stages,
                Stage("check_sma_crossover", ~r.raised /\ r.value, r.fault))
          /\ IF r.raised THEN Propagate /\ UNCHANGED <<results, origin>>
             ELSE IF ~Accept(r.value) THEN Continue /\ UNCHANGED <<results, origin>>
             ELSE /\ results' = Append(results, ResultRecord(tickers[idx], data))
                  /\ origin' = Append(origin, [index   |-> idx,
                                               tested  |-> tested,
                                               defined |-> Len(data.rows)])
                  /\ Continue
    /\ UNCHANGED <<config, tickers, data, exported, provided, tested, visited>>
    /\ UNCHANGED harnessVars

\* the for statement takes the next ticker; the frame and the log of the
\* ticker just evaluated are never read again
NextTicker ==
    /\ pc = "next"
    /\ pc' = "loop"
    /\ idx' = idx + 1
    /\ data' = EmptyFrame
    /\ stages' = <<>>
    /\ provided' = 0
    /\ tested' = Untested
    /\ UNCHANGED <<config, tickers, results, exported, origin, visited,
                   faulted>>
    /\ UNCHANGED harnessVars

\* return results
AnalyzeReturn ==
    /\ pc = "loop" /\ LoopDone(idx, tickers)
    /\ pc' = "export"
    /\ UNCHANGED <<config, tickers, idx, data, results, exported, stages,
                   provided, tested, origin, visited, faulted>>
    /\ UNCHANGED harnessVars

\* if results: write the CSV; else report that nothing met the criteria
Export ==
    /\ pc = "export"
    /\ exported' = IF results # <<>> THEN Append(exported, results) ELSE exported
    /\ pc' = "done"
    /\ UNCHANGED <<config, tickers, idx, data, results, stages, provided,
                   tested, origin, visited, faulted>>
    /\ UNCHANGED harnessVars

Next ==
    \/ LoadConfig
    \/ FetchNasdaqTickers
    \/ MainBranch
    \/ FetchStockData
    \/ CheckVolumeAndPrice
    \/ ApplyIndicators
    \/ CheckCciRise
    \/ CheckSmaCrossover
    \/ NextTicker
    \/ AnalyzeReturn
    \/ Export

Spec == Init /\ [][Next]_vars

(***************************************************************************)
(* The filters on their own: an enriched frame and a configuration are     *)
(* drawn, then one filter is applied to them                               *)
(***************************************************************************)
EnrichedColumns == RawColumns \cup {"SMA20", "SMA200", "CCI"}

EnrichedSample(sma20, cci) ==
    [Close |-> 10000, High |-> 10002, Low |-> 9999, Volume |-> 2000000,
     SMA20 |-> sma20, SMA200 |-> RatInt(10000), CCI |-> cci]

\* -100.01, -100, 100, 100.01
CciSamples == {<<-101, 99, 100>>, MixInt(CciLow), MixInt(CciHigh), <<100, 1, 100>>}
SmaSamples == {RatInt(9999), RatInt(10000), RatInt(10001)}

CciFrames ==
    UNION {[1..n -> {EnrichedSample(RatInt(10000), c) : c \in CciSamples}] :
              n \in 0..MaxLen}
SmaFrames ==
    UNION {[1..n -> {EnrichedSample(m, MixInt(0)) : m \in SmaSamples}] :
              n \in 0..MaxLen}

HarnessConfigs ==
    {[cci_window |-> w, days_before |-> d] : w \in 1..MaxWindow, d \in 1..MaxWindow}

FilterInit ==
    /\ pc = "load_config"
    /\ config = NoConfig
    /\ tickers = <<>>
    /\ idx = 0
    /\ data = EmptyFrame
    /\ results = <<>>
    /\ exported = <<>>
    /\ stages = <<>>
    /\ provided = 0
    /\ tested = Untested
    /\ origin = <<>>
    /\ visited = {}
    /\ faulted = {}
    /\ fpc = "ready"
    /\ \E r \in CciFrames \cup SmaFrames :
          fdata = [columns |-> EnrichedColumns, rows |-> r]
    /\ fconfig \in HarnessConfigs
    /\ fout = Returned(FALSE)

RunCciRise ==
    /\ fpc = "ready"
    /\ fout' = check_cci_rise(fdata, fconfig)
    /\ fpc' = "check_cci_rise"
    /\ UNCHANGED <<fdata, fconfig>>
    /\ UNCHANGED mainVars

RunSmaCrossover ==
    /\ fpc = "ready"
    /\ fout' = check_sma_crossover(fdata, fconfig)
    /\ fpc' = "check_sma_crossover"
    /\ UNCHANGED <<fdata, fconfig>>
    /\ UNCHANGED mainVars

FilterNext == RunCciRise \/ RunSmaCrossover

FilterSpec == FilterInit /\ [][FilterNext]_vars

(***************************************************************************)
(* Properties                                                              *)
(***************************************************************************)
AnalysisPcs == {"loop", "volume", "indicators", "cci", "sma", "next"}
StagePcs == {"volume", "indicators", "cci", "sma"}

\* a stage of that name ran, and passed, for the ticker under evaluation
Ran(name) == \E k \in DOMAIN stages : stages[k].name = name
Passed(name) == \E k \in DOMAIN stages : stages[k].name = name /\ stages[k].ok
\* the input position i has a record in the results
Recorded(i) == \E k \in DOMAIN origin : origin[k].index = i
ConfigComplete == ConfigKeys \subseteq DOMAIN config

\* C1: a ticker is appended to the results if and only if its series was
\* fetched with sufficient history and check_volume_and_price, check_cci_rise
\* and check_sma_crossover all passed; a ticker with a failed stage has no
\* record, and an input position has at most one record.
C1_AllOrNothing ==
    /\ Len(results) = Len(origin)
    /\ \A a, b \in DOMAIN origin : a < b => origin[a].index < origin[b].index
    /\ \A k \in DOMAIN origin :
          /\ origin[k].index \in visited
          /\ results[k].Ticker = tickers[origin[k].index]
    /\ pc \in StagePcs => ~Recorded(idx)
    /\ pc = "next" =>
          /\ Recorded(idx) <=>
                /\ provided >= MinHistory
                /\ Passed("fetch_stock_data")
                /\ Passed("check_volume_and_price")
                /\ Passed("check_cci_rise")
                /\ Passed("check_sma_crossover")
          /\ (\E k \in DOMAIN stages : ~stages[k].ok) => ~Recorded(idx)

C1_Witness ==
    /\ pc = "next"
    /\ idx = 2
    /\ Recorded(1) /\ Recorded(2)
    /\ Passed("check_sma_crossover")

\* C2: a ticker whose provider series has fewer than 200 rows fails the
\* sufficiency check, yields no result, and none of check_volume_and_price,
\* apply_indicators, check_cci_rise, check_sma_crossover runs for it.
C2_ShortSeriesStopsAtFetch ==
    (pc \in StagePcs \cup {"next"} /\ provided >= 0 /\ provided < MinHistory) =>
        /\ pc = "next"
        /\ stages = <<Stage("fetch_stock_data", FALSE, FALSE)>>
        /\ ~Recorded(idx)

C2_Witness ==
    /\ pc = "next"
    /\ provided = MinHistory - 1
    /\ ~Ran("check_volume_and_price")
    /\ ConfigComplete

\* progress of analyze_stocks: the tickers left, then the stages left
Measure ==
    IF pc \notin AnalysisPcs THEN 0
    ELSE 8 * (Len(tickers) + 1 - idx)
           + (CASE pc = "loop" -> 6 [] pc = "volume" -> 5
                [] pc = "indicators" -> 4 [] pc = "cci" -> 3
                [] pc = "sma" -> 2 [] pc = "next" -> 1)

C3_NoAbort ==
    /\ pc = "raised" => visited = {}
    /\ \A i \in faulted : ~Recorded(i)
    /\ (pc \in StagePcs \cup {"next"} /\ provided <= 0) => ~Recorded(idx)
    /\ (pc = "export" \/ (pc = "done" /\ tickers # <<>>)) =>
          visited = 1..Len(tickers)

C3_Progress ==
    pc \in AnalysisPcs =>
        /\ pc' \in AnalysisPcs \cup {"export"}
        /\ Measure' < Measure

\* C3: a fault in one ticker's evaluation (provider failure, empty series,
\* an exception inside an indicator or filter step) never aborts the run:
\* the ticker yields no result, every step of analyze_stocks brings it
\* closer to its return, and it returns having visited every input ticker.
C3_FaultsAreSkipped == []C3_NoAbort /\ [][C3_Progress]_vars

C3_Witness ==
    /\ pc = "done"
    /\ Len(tickers) >= 2
    /\ 1 \in faulted
    /\ Recorded(2)
    /\ visited = 1..Len(tickers)

\* C4: when the configuration lacks a key the pipeline uses, the run aborts
\* before any ticker is fetched or evaluated.
C4_MissingKeyAborts == ~ConfigComplete => (visited = {} /\ pc \notin StagePcs)

\* C5: with an empty ticker universe (or a failed fetch of it) the run stops
\* before any per-ticker work: analyze_stocks is not entered, nothing is
\* fetched, no filter runs, nothing is exported; an export is written at
\* most once, and only after analyze_stocks has gone through all tickers.
C5_ExportOnceAtEnd ==
    /\ tickers = <<>> =>
          /\ pc \notin AnalysisPcs \cup {"export"}
          /\ visited = {} /\ stages = <<>> /\ results = <<>>
          /\ exported = <<>>
    /\ Len(exported) <= 1
    /\ exported # <<>> =>
          /\ pc = "done"
          /\ visited = 1..Len(tickers)
          /\ exported[1] = results

C5_Witness ==
    /\ pc = "done"
    /\ tickers = <<>>
    /\ ConfigComplete
    /\ exported = <<>>

\* C6: check_sma_crossover passes exactly when one of the last days_before
\* positions i has SMA20[i-1] <= SMA200[i-1] and SMA20[i] > SMA200[i]; one
\* crossover inside the window is enough, one just outside it is not seen.
C6_CrossoverInWindow ==
    fpc = "check_sma_crossover" =>
        LET n == Len(fdata.rows)
            d == fconfig["days_before"]
            row(i) == fdata.rows[i]
        IN  /\ ~fout.raised
            /\ fout.value <=>
                  \E i \in 2..n :
                     /\ i > n - d
                     /\ RatLe(row(i - 1).SMA20, row(i - 1).SMA200)
                     /\ RatLt(row(i).SMA200, row(i).SMA20)

\* the positions of the frame at which SMA20 crosses above SMA200
Crossings ==
    {i \in 2..Len(fdata.rows) :
        /\ RatLe(fdata.rows[i - 1].SMA20, fdata.rows[i - 1].SMA200)
        /\ RatLt(fdata.rows[i].SMA200, fdata.rows[i].SMA20)}

C6_Witness ==
    /\ fpc = "check_sma_crossover"
    /\ fout.value
    /\ fconfig["days_before"] >= 2
    /\ Len(fdata.rows) > fconfig["days_before"]
    /\ Crossings = {Len(fdata.rows) - fconfig["days_before"] + 1}

\* C7: check_cci_rise passes exactly when, over the last cci_window CCI
\* values, some value is strictly below -100 and the last value is strictly
\* above +100, wherever in the window the low value is; a minimum of
\* exactly -100 or a last value of exactly +100 does not pass.
C7_CciRiseStrict ==
    fpc = "check_cci_rise" =>
        LET n == Len(fdata.rows)
            w == fconfig["cci_window"]
        IN  /\ ~fout.raised
            /\ fout.value <=>
                  /\ n >= 1
                  /\ \E j \in 1..n :
                        j > n - w /\ MixLt(fdata.rows[j].CCI, MixInt(CciLow))
                  /\ MixLt(MixInt(CciHigh), fdata.rows[n].CCI)

C7_Witness ==
    /\ fpc = "check_cci_rise"
    /\ fout.value
    /\ fconfig["cci_window"] >= 3
    /\ Len(fdata.rows) >= 3
    /\ LET n == Len(fdata.rows)
       IN  /\ MixLt(MixInt(CciHigh), fdata.rows[n - 2].CCI)
           /\ MixLt(fdata.rows[n - 1].CCI, MixInt(CciLow))

\* the sum of the volumes of the last 50 rows of the frame
TailVolume ==
    LET n == Len(data.rows)
        v == [k \in 1..n |-> data.rows[k].Volume]
    IN  SumSeq(v, n - VolumeTail + 1, n)

\* C8: check_volume_and_price passes exactly when the mean volume of the
\* last 50 rows is strictly above volume_threshold and the last close is
\* strictly above price_threshold; a ticker that fails it has no result and
\* neither the indicators nor the other two filters run for it.
C8_VolumePriceStrict ==
    /\ (pc \in {"indicators", "next"} /\ Len(stages) = 2
          /\ {"volume_threshold", "price_threshold"} \subseteq DOMAIN config) =>
          (stages[2].ok <=>
              /\ TailVolume > VolumeTail * config["volume_threshold"]
              /\ data.rows[Len(data.rows)].Close > config["price_threshold"])
    /\ (Len(stages) >= 2 /\ ~stages[2].ok) =>
          /\ stages[2].name = "check_volume_and_price"
          /\ pc = "next" /\ Len(stages) = 2
          /\ ~Recorded(idx)

C8_Witness ==
    /\ pc = "next"
    /\ ConfigComplete
    /\ Len(stages) = 2
    /\ ~stages[2].ok /\ ~stages[2].fault
    /\ TailVolume = VolumeTail * config["volume_threshold"]
    /\ data.rows[Len(data.rows)].Close > config["price_threshold"]

Max3(a, b, c) ==
    IF a >= b /\ a >= c THEN a ELSE IF b >= c THEN b ELSE c

\* C9: a frame with fewer rows of defined indicators than a filter's window
\* needs does not pass the filter: no ticker with fewer than
\* max(days_before, cci_window, sma200_window) fully defined rows is in the
\* results.
C9_ShortWindowFailsClosed ==
    \A k \in DOMAIN origin :
        origin[k].defined >=
            Max3(config["days_before"], config["cci_window"],
                 config["sma200_window"])

\* C10: the Average Volume of a result is (truncated) the mean volume that
\* check_volume_and_price compared with volume_threshold, and its Last Price
\* is (rounded) the close that it compared with price_threshold.
C10_ReportedIsTested ==
    \A k \in DOMAIN results :
        /\ results[k].AverageVolume =
              origin[k].tested[1][1] \div origin[k].tested[1][2]
        /\ results[k].LastPrice = Round2Price(RatInt(origin[k].tested[2]))
====
